---- MODULE Spec2Model ----
(***************************************************************************)
(* Model of the DCmotor class (src/lib/dcMotor.py): the immediate          *)
(* operations run, rotate, reverseRotation and brake, and the polled timed *)
(* operations runFor, waitFor and accelerate, driven by a caller that may  *)
(* invoke an immediate operation at any time and polls one timed operation *)
(* at a time until it returns true, while the millisecond counter          *)
(* ticks_ms() advances and wraps around.                                   *)
(*                                                                         *)
(* Every method is an operator from the object's fields (a record `self`)  *)
(* to the fields after the call; the timed operations also yield the value *)
(* they return.  The variables cyc, pinLog and last are history variables: *)
(* they record what the caller did and never influence the motor.          *)
(***************************************************************************)
EXTENDS Integers, FiniteSets, Sequences, TLC

\* ------------------------------------------------------------- bounds
\* ticks_ms() counts modulo TicksPeriod (a small stand-in for the port's 2^30)
TicksPeriod == 8
\* the caller lets at most MaxStep ms pass between two calls
MaxStep == 2
\* at most MaxDrift ms pass between the two ticks_ms() reads of one call
MaxDrift == 1
\* durations passed as msToRun / msToWait / msWait are in 0..MaxMs
MaxMs == 1
\* a cycle is followed for at most MaxElapsed ms of real time
MaxElapsed == 5
\* the two motors together are followed until the counter reaches TwoHorizon
TwoHorizon == 3
\* taskB's accelerate(0, 100, 60), runFor(50, 2000), accelerate(50, 0, 100)
\* and waitFor(5000), scaled down to fit TicksPeriod: the ramps are cut to
\* their last RampLen steps, the durations to a few ms
RampLen == 1
MsRampUp == 0
MsHold == 0
MsRampDown == 0
MsPause == 2
\* taskA's msRun = 1000 and msStop = 500, scaled down likewise
MsRun == 1
MsStop == 0

\* ---------------------------------------------------------- constants
CCW == 0
CW == 1
PWMRESOLUTIONBITS == 10

Motors == {"A", "B"}
\* the motor the caller of Spec operates
Driven == {"A"}

\* the speeds the caller passes to run (all inside 0..100)
Speeds == {0, 100}
\* runFor also accepts the negative "do not actuate" speed
RunForSpeeds == {-1, 100}
\* the <<speedFrom, speedTo>> the caller passes to accelerate (all inside 0..100):
\* a ramp up to the top of the range, one down to its bottom, a constant one
Ramps == {<<99, 100>>, <<1, 0>>, <<100, 100>>}
Durations == 0..MaxMs

\* ------------------------------------------------------ pure functions
\* trunc(n/d) for d > 0: rounds towards zero, as math.trunc does
TruncDiv(n, d) == IF n >= 0 THEN n \div d ELSE -((-n) \div d)

\* m = (outMax-outMin)/(inMax-inMin); q = outMax - m*inMax; trunc(m*x+q+0.5),
\* as the exact rational (2*(outMax-outMin)*(x-inMax) + 2*outMax*w + w) / (2*w),
\* w = inMax - inMin > 0
\* map without the + 0.5: plain truncation
map_trunc(x, inMin, inMax, outMin, outMax) ==
    LET w == inMax - inMin
    IN  TruncDiv((outMax - outMin) * (x - inMax) + outMax * w, w)

map(x, inMin, inMax, outMin, outMax) ==
    LET w == inMax - inMin
    IN  TruncDiv(2 * (outMax - outMin) * (x - inMax) + 2 * outMax * w + w, 2 * w)

dutyMax == (2 ^ PWMRESOLUTIONBITS) - 1
dutyMin == 0

\* ------------------------------------------------------------- state
VARIABLES
    motor,   \* motor[m]: the fields of DCmotor object m
    clock,   \* the value ticks_ms() returns now
    cyc,     \* cyc[m]: the timed cycle the caller is polling on m
    pinLog,  \* pinLog[m]: who wrote the direction pins last, and the reversals since
    last,    \* the call made by the last step
    stateA,  \* main.py's stateA: the phase of taskA
    stateB   \* main.py's stateB: the phase of taskB

vars == <<motor, clock, cyc, pinLog, last, stateA, stateB>>

\* DCmotor.__init__
NewMotor ==
    [ pin1 |-> 1, pin2 |-> 0, duty |-> 0, rotation |-> CW,
      firstRun |-> TRUE, msPrevious |-> 0, accelMode |-> 0, sp |-> 0 ]

IdleCyc ==
    [ op |-> "none", a |-> 0, b |-> 0, c |-> 0,
      armed0 |-> TRUE, t0 |-> 0, el |-> 0, done |-> FALSE ]

NoCall == [ op |-> "none", m |-> "A", ret |-> FALSE, first |-> FALSE, arg |-> 0 ]

Init ==
    /\ motor = [m \in Motors |-> NewMotor]
    /\ clock = 0
    /\ cyc = [m \in Motors |-> IdleCyc]
    /\ pinLog = [m \in Motors |-> [by |-> "init", flips |-> 0]]
    /\ last = NoCall
    /\ stateA = 0
    /\ stateB = 0

\* ------------------------------------------------- immediate operations
\* rotate that sets the pins but does not store the direction
rotate_nostore(self, direction) ==
    IF direction = CW
    THEN [self EXCEPT !.pin1 = 1, !.pin2 = 0]
    ELSE [self EXCEPT !.pin1 = 0, !.pin2 = 1]

\* rotate that forgets to clear the first pin when turning to CCW
rotate_keep1(self, direction) ==
    IF direction = CW
    THEN [self EXCEPT !.pin1 = 1, !.pin2 = 0, !.rotation = CW]
    ELSE [self EXCEPT !.pin2 = 1, !.rotation = CCW]

\* rotate with the two pin patterns exchanged
rotate_swapped(self, direction) ==
    IF direction = CW
    THEN [self EXCEPT !.pin1 = 0, !.pin2 = 1, !.rotation = CW]
    ELSE [self EXCEPT !.pin1 = 1, !.pin2 = 0, !.rotation = CCW]

rotate(self, direction) ==
    IF direction = CW
    THEN [self EXCEPT !.pin1 = 1, !.pin2 = 0, !.rotation = CW]
    ELSE [self EXCEPT !.pin1 = 0, !.pin2 = 1, !.rotation = CCW]

\* run that skips the writes when the duty is already the one asked for
run_lazy(self, speed) ==
    IF self.duty = map(speed, 0, 100, dutyMin, dutyMax)
    THEN self
    ELSE rotate([self EXCEPT !.duty = map(speed, 0, 100, dutyMin, dutyMax)],
                self.rotation)

run(self, speed) ==
    rotate([self EXCEPT !.duty = map(speed, 0, 100, dutyMin, dutyMax)],
           self.rotation)

\* reverseRotation that also drives the pins in the new direction
reverseRotation_pins(self) ==
    rotate(self, IF self.rotation = CCW THEN CW ELSE CCW)

reverseRotation(self) ==
    [self EXCEPT !.rotation = IF self.rotation = CCW THEN CW ELSE CCW]

\* brake that also resets the stored rotation to CW
brake_resetrot(self) ==
    [self EXCEPT !.pin1 = 0, !.pin2 = 0, !.duty = 0, !.rotation = CW]

\* brake that also rearms the timed operations
brake_rearm(self) ==
    [self EXCEPT !.pin1 = 0, !.pin2 = 0, !.duty = 0, !.firstRun = TRUE]

brake(self) ==
    [self EXCEPT !.pin1 = 0, !.pin2 = 0, !.duty = 0]

\* ----------------------------------------------------- timed operations
\* t1 is the ticks_ms() read of the first-call branch, t2 the read of the
\* elapsed-time comparison; Python integers are unbounded, so t2 - msPrevious
\* is the plain difference of the two counter values.
\* Each yields [self |-> the fields after the call, ret |-> the value returned].

\* runFor with the elapsed-time test written >= instead of >
runFor_ge(self, speed, msToRun, t1, t2) ==
    LET s1 == IF self.firstRun
              THEN [self EXCEPT !.msPrevious = t1, !.firstRun = FALSE]
              ELSE self
        s2 == IF speed >= 0 THEN run(s1, speed) ELSE s1
        s3 == IF (t2 - s2.msPrevious) >= msToRun
              THEN [brake(s2) EXCEPT !.firstRun = TRUE]
              ELSE s2
    IN  [self |-> s3, ret |-> s3.firstRun]

\* runFor that drives the motor whatever the sign of speed
runFor_always(self, speed, msToRun, t1, t2) ==
    LET s1 == IF self.firstRun
              THEN [self EXCEPT !.msPrevious = t1, !.firstRun = FALSE]
              ELSE self
        s2 == run(s1, speed)
        s3 == IF (t2 - s2.msPrevious) > msToRun
              THEN [brake(s2) EXCEPT !.firstRun = TRUE]
              ELSE s2
    IN  [self |-> s3, ret |-> s3.firstRun]

runFor(self, speed, msToRun, t1, t2) ==
    LET s1 == IF self.firstRun
              THEN [self EXCEPT !.msPrevious = t1, !.firstRun = FALSE]
              ELSE self
        s2 == IF speed >= 0 THEN run(s1, speed) ELSE s1
        s3 == IF (t2 - s2.msPrevious) > msToRun
              THEN [brake(s2) EXCEPT !.firstRun = TRUE]
              ELSE s2
    IN  [self |-> s3, ret |-> s3.firstRun]

\* waitFor that brakes on every call, not only on the first one of a cycle
waitFor_rebrake(self, msToWait, t1, t2) ==
    LET s1 == IF self.firstRun
              THEN [brake(self) EXCEPT !.msPrevious = t1, !.firstRun = FALSE]
              ELSE brake(self)
        s2 == IF (t2 - s1.msPrevious) > msToWait
              THEN [s1 EXCEPT !.firstRun = TRUE]
              ELSE s1
    IN  [self |-> s2, ret |-> s2.firstRun]

waitFor(self, msToWait, t1, t2) ==
    LET s1 == IF self.firstRun
              THEN [brake(self) EXCEPT !.msPrevious = t1, !.firstRun = FALSE]
              ELSE self
        s2 == IF (t2 - s1.msPrevious) > msToWait
              THEN [s1 EXCEPT !.firstRun = TRUE]
              ELSE s1
    IN  [self |-> s2, ret |-> s2.firstRun]

\* the first-call branch with the ramp classified by <= : equal speeds speed up
accelInit_le(self, speedFrom, speedTo, t1) ==
    [self EXCEPT !.sp = speedFrom,
                 !.msPrevious = t1,
                 !.accelMode = IF speedFrom <= speedTo THEN 0 ELSE 1,
                 !.firstRun = FALSE]

\* lines 94-102: the first-call branch of accelerate
accelInit(self, speedFrom, speedTo, t1) ==
    [self EXCEPT !.sp = speedFrom,
                 !.msPrevious = t1,
                 !.accelMode = IF speedFrom < speedTo THEN 0
                               ELSE IF speedFrom > speedTo THEN 1
                               ELSE 2,
                 !.firstRun = FALSE]

\* speeding up without waiting msWait between two steps
accelUp_nowait(s, speedTo, msWait, t2) ==
    IF s.sp <= speedTo
    THEN [self |-> [s EXCEPT !.msPrevious = t2, !.sp = s.sp + 1], ret |-> FALSE]
    ELSE [self |-> [s EXCEPT !.firstRun = TRUE], ret |-> TRUE]

\* lines 104-112: accelMode 0, speed up
accelUp(s, speedTo, msWait, t2) ==
    IF s.sp <= speedTo
    THEN [self |-> IF (t2 - s.msPrevious) > msWait
                   THEN [s EXCEPT !.msPrevious = t2, !.sp = s.sp + 1]
                   ELSE s,
          ret |-> FALSE]
    ELSE [self |-> [s EXCEPT !.firstRun = TRUE], ret |-> TRUE]

\* lines 113-121: accelMode 1, slow down
accelDown(s, speedTo, msWait, t2) ==
    IF s.sp >= speedTo
    THEN [self |-> IF (t2 - s.msPrevious) > msWait
                   THEN [s EXCEPT !.msPrevious = t2, !.sp = s.sp - 1]
                   ELSE s,
          ret |-> FALSE]
    ELSE [self |-> [s EXCEPT !.firstRun = TRUE], ret |-> TRUE]

\* lines 122-124: accelMode 2, constant speed
accelConst(s) ==
    [self |-> [s EXCEPT !.firstRun = FALSE], ret |-> TRUE]

accelerate(self, speedFrom, speedTo, msWait, t1, t2) ==
    LET s1 == IF self.firstRun THEN accelInit(self, speedFrom, speedTo, t1) ELSE self
        s2 == run(s1, s1.sp)
    IN  CASE s2.accelMode = 0 -> accelUp(s2, speedTo, msWait, t2)
          [] s2.accelMode = 1 -> accelDown(s2, speedTo, msWait, t2)
          [] OTHER            -> accelConst(s2)

\* ------------------------------------------------------------ history
\* a timed call continues the cycle in flight when it repeats its operation
\* and arguments; any other timed call is the first call of a new cycle
Continues(m, op, a, b, c) ==
    /\ cyc[m].op = op /\ ~cyc[m].done
    /\ cyc[m].a = a /\ cyc[m].b = b /\ cyc[m].c = c

InFlight(m) == cyc[m].op # "none" /\ ~cyc[m].done

\* the caller has one timed operation in flight per motor: it polls that one
\* until it returns true before it starts another (as taskA and taskB do)
MayPoll(m, op, a, b, c) == ~InFlight(m) \/ Continues(m, op, a, b, c)

\* d more ms of real time: a finished cycle is forgotten, one in flight ages
Aged(cy, d) ==
    IF cy.op = "none" \/ cy.done THEN IdleCyc ELSE [cy EXCEPT !.el = cy.el + d]

CanPass(d) == \A m \in Motors : InFlight(m) => cyc[m].el + d <= MaxElapsed

\* the cycle record after a timed call on m that took d ms and returned ret
Polled(m, op, a, b, c, d, ret) ==
    [x \in Motors |->
        IF x # m THEN Aged(cyc[x], d)
        ELSE IF Continues(m, op, a, b, c)
             THEN [cyc[m] EXCEPT !.el = cyc[m].el + d, !.done = ret]
             ELSE [ op |-> op, a |-> a, b |-> b, c |-> c,
                    armed0 |-> motor[m].firstRun, t0 |-> clock,
                    el |-> d, done |-> ret ]]

\* pinLog: by = the operation whose call wrote the direction pins last
\* ("init", "rotate" for rotate and run, or the operation that braked);
\* flips = the reverseRotation calls (mod 2) since, while the pins are driven
LogRotate == [by |-> "rotate", flips |-> 0]
LogBrake(op) == [by |-> op, flips |-> 0]
LogReverse(l) ==
    IF l.by \in {"init", "rotate"} THEN [l EXCEPT !.flips = 1 - l.flips] ELSE l

\* ticks_ms() after d more ms
Ticks(d) == (clock + d) % TicksPeriod

\* the ms that may pass between the two reads of a call: both reads happen
\* only in a first call (firstRun set)
Drifts(m) == IF motor[m].firstRun THEN 0..MaxDrift ELSE {0}

\* ------------------------------------------------------------ actions
Run(m, speed) ==
    /\ motor' = [motor EXCEPT ![m] = run(motor[m], speed)]
    /\ pinLog' = [pinLog EXCEPT ![m] = LogRotate]
    /\ cyc' = [x \in Motors |-> Aged(cyc[x], 0)]
    /\ last' = [op |-> "run", m |-> m, ret |-> FALSE, first |-> FALSE, arg |-> speed]
    /\ UNCHANGED <<clock, stateA, stateB>>

Rotate(m, direction) ==
    /\ motor' = [motor EXCEPT ![m] = rotate(motor[m], direction)]
    /\ pinLog' = [pinLog EXCEPT ![m] = LogRotate]
    /\ cyc' = [x \in Motors |-> Aged(cyc[x], 0)]
    /\ last' = [op |-> "rotate", m |-> m, ret |-> FALSE, first |-> FALSE, arg |-> direction]
    /\ UNCHANGED <<clock, stateA, stateB>>

ReverseRotation(m) ==
    /\ motor' = [motor EXCEPT ![m] = reverseRotation(motor[m])]
    /\ pinLog' = [pinLog EXCEPT ![m] = LogReverse(pinLog[m])]
    /\ cyc' = [x \in Motors |-> Aged(cyc[x], 0)]
    /\ last' = [op |-> "reverseRotation", m |-> m, ret |-> FALSE, first |-> FALSE, arg |-> 0]
    /\ UNCHANGED <<clock, stateA, stateB>>

\* brake acting on pins shared by all the motors
Brake_all(m) ==
    /\ motor' = [x \in Motors |-> brake(motor[x])]
    /\ pinLog' = [x \in Motors |-> LogBrake("brake")]
    /\ cyc' = [x \in Motors |-> Aged(cyc[x], 0)]
    /\ last' = [op |-> "brake", m |-> m, ret |-> FALSE, first |-> FALSE, arg |-> 0]
    /\ UNCHANGED <<clock, stateA, stateB>>

Brake(m) ==
    /\ motor' = [motor EXCEPT ![m] = brake(motor[m])]
    /\ pinLog' = [pinLog EXCEPT ![m] = LogBrake("brake")]
    /\ cyc' = [x \in Motors |-> Aged(cyc[x], 0)]
    /\ last' = [op |-> "brake", m |-> m, ret |-> FALSE, first |-> FALSE, arg |-> 0]
    /\ UNCHANGED <<clock, stateA, stateB>>

RunFor(m, speed, msToRun) ==
    \E d \in Drifts(m) :
        LET r == runFor(motor[m], speed, msToRun, clock, Ticks(d))
        IN  /\ CanPass(d)
            /\ MayPoll(m, "runFor", speed, msToRun, 0)
            /\ motor' = [motor EXCEPT ![m] = r.self]
            /\ clock' = Ticks(d)
            /\ cyc' = Polled(m, "runFor", speed, msToRun, 0, d, r.ret)
            /\ pinLog' = [pinLog EXCEPT ![m] =
                             IF r.ret THEN LogBrake("runFor")
                             ELSE IF speed >= 0 THEN LogRotate ELSE pinLog[m]]
            /\ last' = [op |-> "runFor", m |-> m, ret |-> r.ret,
                        first |-> ~Continues(m, "runFor", speed, msToRun, 0),
                        arg |-> speed]
            /\ UNCHANGED <<stateA, stateB>>

WaitFor(m, msToWait) ==
    \E d \in Drifts(m) :
        LET r == waitFor(motor[m], msToWait, clock, Ticks(d))
        IN  /\ CanPass(d)
            /\ MayPoll(m, "waitFor", msToWait, 0, 0)
            /\ motor' = [motor EXCEPT ![m] = r.self]
            /\ clock' = Ticks(d)
            /\ cyc' = Polled(m, "waitFor", msToWait, 0, 0, d, r.ret)
            /\ pinLog' = [pinLog EXCEPT ![m] =
                             IF motor[m].firstRun THEN LogBrake("waitFor") ELSE pinLog[m]]
            /\ last' = [op |-> "waitFor", m |-> m, ret |-> r.ret,
                        first |-> ~Continues(m, "waitFor", msToWait, 0, 0),
                        arg |-> 0]
            /\ UNCHANGED <<stateA, stateB>>

Accelerate(m, speedFrom, speedTo, msWait) ==
    \E d \in Drifts(m) :
        LET r == accelerate(motor[m], speedFrom, speedTo, msWait, clock, Ticks(d))
        IN  /\ CanPass(d)
            /\ MayPoll(m, "accelerate", speedFrom, speedTo, msWait)
            /\ motor' = [motor EXCEPT ![m] = r.self]
            /\ clock' = Ticks(d)
            /\ cyc' = Polled(m, "accelerate", speedFrom, speedTo, msWait, d, r.ret)
            /\ pinLog' = [pinLog EXCEPT ![m] = LogRotate]
            /\ last' = [op |-> "accelerate", m |-> m, ret |-> r.ret,
                        first |-> ~Continues(m, "accelerate", speedFrom, speedTo, msWait),
                        arg |-> 0]
            /\ UNCHANGED <<stateA, stateB>>

\* the caller lets d ms pass before its next call
Tick(d) ==
    /\ CanPass(d)
    /\ clock' = Ticks(d)
    /\ cyc' = [x \in Motors |-> Aged(cyc[x], d)]
    /\ last' = NoCall
    /\ UNCHANGED <<motor, pinLog, stateA, stateB>>

Next ==
    \/ \E d \in 1..MaxStep : Tick(d)
    \/ \E m \in Driven :
        \/ \E s \in Speeds : Run(m, s)
        \/ \E dir \in {CW, CCW} : Rotate(m, dir)
        \/ ReverseRotation(m)
        \/ Brake(m)
        \/ \E s \in RunForSpeeds, ms \in Durations : RunFor(m, s, ms)
        \/ \E ms \in Durations : WaitFor(m, ms)
        \/ \E r \in Ramps, ms \in Durations : Accelerate(m, r[1], r[2], ms)

Spec == Init /\ [][Next]_vars

\* both motors operated from the same loop, each with one choice of arguments
\* per operation, for as long as the counter is below TwoHorizon
Callable == {m \in Motors : clock < TwoHorizon}

NextTwo ==
    \/ clock < TwoHorizon /\ Tick(1)
    \/ \E m \in Callable :
        \/ Run(m, 100)
        \/ Rotate(m, CCW)
        \/ ReverseRotation(m)
        \/ Brake(m)
        \/ RunFor(m, 100, 0)
        \/ WaitFor(m, 0)
        \/ Accelerate(m, 99, 100, 0)

SpecTwo == Init /\ [][NextTwo]_vars

\* run called with every speed of the range, on either rotation
MapSpeeds == 0..100

NextMap ==
    \/ \E s \in MapSpeeds : Run("A", s)
    \/ ReverseRotation("A")

SpecMap == Init /\ [][NextMap]_vars

\* -------------------------------------------------------------- tasks
\* One call of a task is taken to read the same counter value t in all its
\* ticks_ms() reads.  The phases are tested by successive ifs, so a call that
\* leaves a phase goes on into the block of the next one.  A call is followed
\* as x = [self: the motor's fields, state: the task's phase, log: for each
\* block entered so far, what its operation returned and the motor's fields
\* when the block was left].

Entered(self, state) == [self |-> self, state |-> state, log |-> <<>>]

\* the end of a block whose operation returned ret and left the motor as
\* after: the phase becomes next if ret
Left(x, ret, next, after) ==
    [ self |-> after, state |-> IF ret THEN next ELSE x.state,
      log |-> Append(x.log, [ret |-> ret, after |-> after]) ]

\* a timed operation as the condition of a block without further statements
Then(x, r, next) == Left(x, r.ret, next, r.self)

\* the call as seen by the loop: ret = the value returned by the operation of
\* the phase the call began in, mid = the motor when that block was left
Returned(x) ==
    [self |-> x.self, state |-> x.state, ret |-> x.log[1].ret, mid |-> x.log[1].after]

BlockB0(x, t) ==
    IF x.state = 0
    THEN Then(x, accelerate(x.self, 100 - RampLen, 100, MsRampUp, t, t), 1)
    ELSE x

BlockB1(x, t) ==
    IF x.state = 1 THEN Then(x, runFor(x.self, 50, MsHold, t, t), 2) ELSE x

\* brake() and reverseRotation() follow when the ramp down returned true
ThenStop(x, r) ==
    Left(x, r.ret, 3, IF r.ret THEN reverseRotation(brake(r.self)) ELSE r.self)

BlockB2(x, t) ==
    IF x.state = 2
    THEN ThenStop(x, accelerate(x.self, RampLen, 0, MsRampDown, t, t))
    ELSE x

BlockB3(x, t) ==
    IF x.state = 3 THEN Then(x, waitFor(x.self, MsPause, t, t), 0) ELSE x

taskB(self, state, t) ==
    Returned(BlockB3(BlockB2(BlockB1(BlockB0(Entered(self, state), t), t), t), t))

\* the operation and arguments taskB polls in each phase
CallB(state) ==
    CASE state = 0 -> [op |-> "accelerate", a |-> 100 - RampLen, b |-> 100,
                       c |-> MsRampUp]
      [] state = 1 -> [op |-> "runFor", a |-> 50, b |-> MsHold, c |-> 0]
      [] state = 2 -> [op |-> "accelerate", a |-> RampLen, b |-> 0,
                       c |-> MsRampDown]
      [] OTHER     -> [op |-> "waitFor", a |-> MsPause, b |-> 0, c |-> 0]

\* the cycle record of a task: the operation the task is polling, whether the
\* motor was armed at its first call (armed0) and the counter value then (t0);
\* the real time elapsed is not followed here (el stays 0)
Begun(call, armed, t) ==
    [ op |-> call.op, a |-> call.a, b |-> call.b, c |-> call.c,
      armed0 |-> armed, t0 |-> t, el |-> 0, done |-> FALSE ]

\* one turn of the main loop for motor B: d ms later, taskB(motorB)
LoopB(d) ==
    LET t == Ticks(d)
        r == taskB(motor["B"], stateB, t)
    IN  /\ clock' = t
        /\ motor' = [motor EXCEPT !["B"] = r.self]
        /\ stateB' = r.state
        /\ cyc' = [cyc EXCEPT !["B"] =
                      IF r.state # stateB
                      THEN IF r.state = 0 THEN IdleCyc
                           ELSE Begun(CallB(r.state), r.mid.firstRun, t)
                      ELSE IF @.op = "none"
                           THEN Begun(CallB(stateB), motor["B"].firstRun, t)
                           ELSE @]
        /\ pinLog' = [pinLog EXCEPT !["B"] =
                         CASE stateB \in {0, 1} -> LogRotate
                           [] stateB = 2 ->
                                IF r.ret
                                THEN LogBrake(IF r.mid.firstRun THEN "waitFor"
                                              ELSE "brake")
                                ELSE LogRotate
                           [] OTHER ->
                                IF motor["B"].firstRun THEN LogBrake("waitFor")
                                ELSE @]
        /\ last' = [op |-> "taskB", m |-> "B", ret |-> r.ret,
                    first |-> (cyc["B"].op = "none"), arg |-> stateB]
        /\ UNCHANGED stateA

NextTaskB == \E d \in 1..MaxStep : LoopB(d)

\* the loop of main.py is `while True`: it never stops taking turns
SpecTaskB == Init /\ [][NextTaskB]_vars /\ WF_vars(NextTaskB)

BlockA0(x, speed, msRun, t) ==
    IF x.state = 0 THEN Then(x, runFor(x.self, speed, msRun, t, t), 1) ELSE x

\* reverseRotation() follows when waitFor returned true
ThenReverse(x, r) ==
    Left(x, r.ret, 0, IF r.ret THEN reverseRotation(r.self) ELSE r.self)

BlockA1(x, msStop, t) ==
    IF x.state = 1 THEN ThenReverse(x, waitFor(x.self, msStop, t, t)) ELSE x

taskA(self, state, speed, msRun, msStop, t) ==
    Returned(BlockA1(BlockA0(Entered(self, state), speed, msRun, t), msStop, t))

\* the operation and arguments taskA polls in each phase
CallA(state, speed, msRun, msStop) ==
    IF state = 0 THEN [op |-> "runFor", a |-> speed, b |-> msRun, c |-> 0]
    ELSE [op |-> "waitFor", a |-> msStop, b |-> 0, c |-> 0]

\* one turn of the main loop for motor A: d ms later,
\* taskA(motorA, 30, msRun, msStop)
LoopA(d) ==
    LET t == Ticks(d)
        r == taskA(motor["A"], stateA, 30, MsRun, MsStop, t)
    IN  /\ clock' = t
        /\ motor' = [motor EXCEPT !["A"] = r.self]
        /\ stateA' = r.state
        /\ cyc' = [cyc EXCEPT !["A"] =
                      IF r.state # stateA
                      THEN IF r.state = 0 THEN IdleCyc
                           ELSE Begun(CallA(r.state, 30, MsRun, MsStop),
                                      r.mid.firstRun, t)
                      ELSE IF @.op = "none"
                           THEN Begun(CallA(stateA, 30, MsRun, MsStop),
                                      motor["A"].firstRun, t)
                           ELSE @]
        /\ pinLog' = [pinLog EXCEPT !["A"] =
                         IF stateA = 0
                         THEN IF r.ret
                              THEN LogBrake(IF r.mid.firstRun THEN "waitFor"
                                            ELSE "runFor")
                              ELSE LogRotate
                         ELSE LET l == IF motor["A"].firstRun
                                       THEN LogBrake("waitFor") ELSE @
                              IN  IF r.ret THEN LogReverse(l) ELSE l]
        /\ last' = [op |-> "taskA", m |-> "A", ret |-> r.ret,
                    first |-> (cyc["A"].op = "none"), arg |-> stateA]
        /\ UNCHANGED stateB

NextTaskA == \E d \in 1..MaxStep : LoopA(d)

\* the loop of main.py is `while True`: it never stops taking turns
SpecTaskA == Init /\ [][NextTaskA]_vars /\ WF_vars(NextTaskA)

\* ------------------------------------------------------------ claims
TimedOps == {"runFor", "waitFor", "accelerate"}

\* the timed call on m made by the last step was op, in a cycle begun armed
Polling(m, op) == last.op = op /\ last.m = m /\ cyc[m].op = op /\ cyc[m].armed0

\* the counter has not wrapped around since the cycle's first call
NoWrap(m) == cyc[m].t0 + cyc[m].el < TicksPeriod

Braked(m) == motor[m].pin1 = 0 /\ motor[m].pin2 = 0 /\ motor[m].duty = 0

\* C1: in a runFor cycle begun armed, while the counter does not wrap, a call
\* returns true exactly when more than msToRun ms have passed since the first
\* call; the call that returns true leaves the motor braked and armed, and the
\* anchor of a cycle is the counter value at its own first call.
C1_RunForTiming ==
    \A m \in Motors :
        (Polling(m, "runFor") /\ NoWrap(m)) =>
            /\ last.ret = (cyc[m].el > cyc[m].b)
            /\ clock - cyc[m].t0 = cyc[m].el
            /\ motor[m].msPrevious = cyc[m].t0
            /\ last.ret => (Braked(m) /\ motor[m].firstRun)
            /\ ~last.ret => ~motor[m].firstRun

\* a runFor cycle that was polled, returned false, and then returned true
C1_Witness ==
    /\ Polling("A", "runFor") /\ NoWrap("A")
    /\ ~last.first /\ last.ret
    /\ cyc["A"].b = MaxMs /\ cyc["A"].el = MaxMs + 1
    /\ motor["A"].msPrevious > 0

\* C2: a timed operation that returns true leaves the motor armed.
C2_RearmedOnCompletion ==
    \A m \in Motors :
        (last.op \in TimedOps /\ last.m = m /\ last.ret) => motor[m].firstRun

\* C3: with every speed passed in 0..100, every duty written is in
\* dutyMin..dutyMax.
C3_DutyInRange ==
    \A m \in Motors : motor[m].duty \in dutyMin..dutyMax

\* C4: in a runFor or waitFor cycle begun armed, a call returns true exactly
\* when more than the requested duration of real time has passed since the
\* first call, whether or not the counter wrapped around meanwhile.
C4_WrapSafe ==
    \A m \in Motors :
        /\ Polling(m, "runFor") => last.ret = (cyc[m].el > cyc[m].b)
        /\ Polling(m, "waitFor") => last.ret = (cyc[m].el > cyc[m].a)

\* the pin pattern <<pin1, pin2>> rotate asserts for a direction
Pattern(rotation) == IF rotation = CW THEN <<1, 0>> ELSE <<0, 1>>
Flip(rotation) == IF rotation = CCW THEN CW ELSE CCW
PinsOf(self) == <<self.pin1, self.pin2>>
Outputs(self) == <<self.pin1, self.pin2, self.duty>>
Bookkeeping(self) == <<self.firstRun, self.msPrevious, self.accelMode, self.sp>>

\* C5 (state part): in a waitFor cycle begun armed, a call returns true exactly
\* when the counter read by the call exceeds the one read by the first call by
\* more than msToWait; the first call leaves the motor braked and anchors the
\* cycle at its own counter value; the call that returns true leaves it armed.
C5_WaitForState ==
    \A m \in Motors :
        Polling(m, "waitFor") =>
            /\ last.ret = (clock - cyc[m].t0 > cyc[m].a)
            /\ motor[m].msPrevious = cyc[m].t0
            /\ last.first => Braked(m)
            /\ last.ret = motor[m].firstRun

\* C5 (step part): a later call of the cycle writes no output.
C5_WaitForLaterCall ==
    \A m \in Motors :
        (last'.op = "waitFor" /\ last'.m = m /\ ~last'.first /\ cyc'[m].armed0) =>
            /\ Outputs(motor'[m]) = Outputs(motor[m])
            /\ motor'[m].rotation = motor[m].rotation

\* C5: waitFor brakes on the first call of a cycle only, returns false while
\* now - anchor <= msToWait and true on the first call with now - anchor >
\* msToWait, which rearms the motor.
C5_WaitFor == []C5_WaitForState /\ [][C5_WaitForLaterCall]_vars

\* a waitFor cycle completing on a later call, on a motor the caller has set
\* running again since the cycle's first call
C5_Witness ==
    /\ Polling("A", "waitFor") /\ ~last.first /\ last.ret
    /\ cyc["A"].a = MaxMs
    /\ ~Braked("A")

\* C6 (step): in an accelerate cycle begun armed with speedFrom # speedTo, a
\* call leaves rampSpeed where it was (speedFrom on the first call) or moves it
\* by one towards and past speedTo; it moves only when the counter exceeds the
\* anchor by more than msWait, and then the anchor becomes the counter value;
\* true is returned only with rampSpeed beyond speedTo, and not before
\* |speedTo - speedFrom| * msWait ms have passed since the first call.  No
\* other operation changes rampSpeed.
C6_AccelerateStep ==
    \A m \in Motors :
        /\ (last'.op = "accelerate" /\ last'.m = m /\ cyc'[m].armed0
                /\ cyc'[m].a # cyc'[m].b) =>
            LET from   == cyc'[m].a
                to     == cyc'[m].b
                msWait == cyc'[m].c
                dir    == IF from < to THEN 1 ELSE -1
                base   == IF last'.first THEN from ELSE motor[m].sp
                anchor == IF last'.first THEN clock ELSE motor[m].msPrevious
                dist   == IF from < to THEN to - from ELSE from - to
            IN  /\ motor'[m].sp \in {base, base + dir}
                /\ motor'[m].sp # base =>
                      /\ clock' - anchor > msWait
                      /\ motor'[m].msPrevious = clock'
                /\ motor'[m].sp = base => motor'[m].msPrevious = anchor
                /\ last'.ret =>
                      /\ motor'[m].sp = base
                      /\ (motor'[m].sp - to) * dir > 0
                      /\ cyc'[m].el >= dist * msWait
        /\ (last'.op # "accelerate" \/ last'.m # m) => motor'[m].sp = motor[m].sp

\* C6: accelerate steps rampSpeed by exactly one per msWait interval.
C6_Accelerate == [][C6_AccelerateStep]_vars

\* a ramp from 99 up to 100 that completed, with msWait > 0
C6_Witness ==
    /\ Polling("A", "accelerate") /\ last.ret
    /\ cyc["A"].a = 99 /\ cyc["A"].b = 100 /\ cyc["A"].c = MaxMs
    /\ motor["A"].sp = 101

\* C7: accelerate(s, s, msWait) on an armed motor returns true on its first
\* call, with the motor commanded at speed s and rampSpeed = s.
C7_AccelerateConstant ==
    \A m \in Motors :
        (Polling(m, "accelerate") /\ last.first /\ cyc[m].a = cyc[m].b) =>
            /\ last.ret
            /\ motor[m].duty = map(cyc[m].a, 0, 100, dutyMin, dutyMax)
            /\ PinsOf(motor[m]) = Pattern(motor[m].rotation)
            /\ motor[m].sp = cyc[m].a

\* accelerate(100, 100, msWait) called on a braked, armed motor turning CCW
C7_Witness ==
    /\ Polling("A", "accelerate") /\ last.first
    /\ cyc["A"].a = 100 /\ cyc["A"].b = 100
    /\ motor["A"].rotation = CCW
    /\ motor["A"].duty = 1023

\* C8 as stated: whenever the direction pins are not both low, they carry the
\* pattern of the stored rotation.
C8_PinsMatchRotation ==
    \A m \in Motors :
        PinsOf(motor[m]) # <<0, 0>> => PinsOf(motor[m]) = Pattern(motor[m].rotation)

\* C8 as amended: whenever the direction pins are not both low, exactly one is
\* high, and they carry the pattern of the stored rotation, or the opposite one
\* when reverseRotation was called an odd number of times since they were last
\* written.
C8_PinsMatchUnlessReversed ==
    \A m \in Motors :
        PinsOf(motor[m]) # <<0, 0>> =>
            /\ motor[m].pin1 + motor[m].pin2 = 1
            /\ PinsOf(motor[m]) =
                  Pattern(IF pinLog[m].flips = 1
                          THEN Flip(motor[m].rotation)
                          ELSE motor[m].rotation)

\* a running motor whose stored rotation was reversed after a rotate(CCW) and
\* whose pins still carry the CCW pattern
C8_Witness ==
    /\ last.op = "reverseRotation" /\ pinLog["A"].flips = 1
    /\ PinsOf(motor["A"]) = Pattern(CCW) /\ motor["A"].rotation = CW
    /\ motor["A"].duty = 1023

\* C9: the direction pins are never both high, and they are both low only
\* after a brake (brake(), the completing call of runFor, the first call of
\* waitFor) that no run or rotate has followed.
C9_PinsExclusive ==
    \A m \in Motors :
        /\ ~(motor[m].pin1 = 1 /\ motor[m].pin2 = 1)
        /\ motor[m].pin1 \in {0, 1} /\ motor[m].pin2 \in {0, 1}
        /\ PinsOf(motor[m]) = <<0, 0>> => pinLog[m].by \in {"brake", "runFor", "waitFor"}

\* a motor turning CCW after it was braked by a completing runFor
C9_Witness ==
    /\ last.op = "run" /\ PinsOf(motor["A"]) = Pattern(CCW)
    /\ motor["A"].firstRun /\ motor["A"].msPrevious > 0
    /\ motor["A"].duty = 1023

\* C10 (step): reverseRotation flips the stored rotation and changes no other
\* field; a run that follows it asserts the pattern of the flipped rotation,
\* the opposite of the pattern for the rotation stored before the reversal (and
\* of the pins as they were, when they carried that pattern).
C10_ReverseStep ==
    \A m \in Motors :
        /\ (last'.op = "reverseRotation" /\ last'.m = m) =>
              /\ motor'[m].rotation = Flip(motor[m].rotation)
              /\ Outputs(motor'[m]) = Outputs(motor[m])
              /\ Bookkeeping(motor'[m]) = Bookkeeping(motor[m])
        /\ (last.op = "reverseRotation" /\ last.m = m
                /\ last'.op = "run" /\ last'.m = m) =>
              /\ PinsOf(motor'[m]) = Pattern(motor[m].rotation)
              /\ PinsOf(motor'[m]) # Pattern(Flip(motor[m].rotation))
              /\ PinsOf(motor[m]) = Pattern(Flip(motor[m].rotation)) =>
                    PinsOf(motor'[m]) = <<motor[m].pin2, motor[m].pin1>>

\* C10: reverseRotation changes the stored rotation only; the pins follow at
\* the next run.
C10_ReverseRotation == [][C10_ReverseStep]_vars

\* a running motor right after reverseRotation: rotation flipped, pins as before
C10_Witness ==
    /\ last.op = "reverseRotation" /\ last.m = "A"
    /\ motor["A"].rotation = CCW /\ PinsOf(motor["A"]) = Pattern(CW)
    /\ motor["A"].duty = 1023 /\ pinLog["A"].by = "rotate"

\* C11 (step): brake sets both direction pins low and the duty to 0 and leaves
\* the stored rotation (and the timed bookkeeping) as it was; a run that
\* follows it asserts the pattern of that same rotation.
C11_BrakeStep ==
    \A m \in Motors :
        /\ (last'.op = "brake" /\ last'.m = m) =>
              /\ Outputs(motor'[m]) = <<0, 0, 0>>
              /\ motor'[m].rotation = motor[m].rotation
              /\ Bookkeeping(motor'[m]) = Bookkeeping(motor[m])
        /\ (last.op = "brake" /\ last.m = m /\ last'.op = "run" /\ last'.m = m) =>
              /\ PinsOf(motor'[m]) = Pattern(motor[m].rotation)
              /\ motor'[m].rotation = motor[m].rotation

\* C11: brake clears pins and duty in any state and keeps the rotation, so a
\* run after the brake turns the motor the same way as before.
C11_Brake == [][C11_BrakeStep]_vars

\* a motor that was running CCW at full duty, right after brake()
C11_Witness ==
    /\ last.op = "brake" /\ last.m = "A"
    /\ Outputs(motor["A"]) = <<0, 0, 0>>
    /\ motor["A"].rotation = CCW
    /\ pinLog["A"].by = "brake"

\* C12 (step): whatever the state before, run(speed) leaves duty = map(speed),
\* the pins on the pattern of the stored rotation, and the rotation unchanged.
C12_RunStep ==
    \A m \in Motors :
        (last'.op = "run" /\ last'.m = m) =>
            /\ motor'[m].duty = map(last'.arg, 0, 100, dutyMin, dutyMax)
            /\ PinsOf(motor'[m]) = Pattern(motor[m].rotation)
            /\ motor'[m].rotation = motor[m].rotation

\* C12: run always writes the duty and re-asserts the stored rotation.
C12_Run == [][C12_RunStep]_vars

\* run(0) on a motor turning CCW: the duty is 0 as after a brake, the pins are
\* asserted all the same
C12_Witness ==
    /\ last.op = "run" /\ last.m = "A" /\ last.arg = 0
    /\ motor["A"].duty = 0
    /\ motor["A"].rotation = CCW /\ PinsOf(motor["A"]) = <<0, 1>>

\* C13 (step): rotate(CW) sets pin1 high / pin2 low and stores CW, rotate(CCW)
\* sets pin1 low / pin2 high and stores CCW; the duty is unchanged.
C13_RotateStep ==
    \A m \in Motors :
        (last'.op = "rotate" /\ last'.m = m) =>
            /\ last'.arg = CW =>
                  (PinsOf(motor'[m]) = <<1, 0>> /\ motor'[m].rotation = CW)
            /\ last'.arg = CCW =>
                  (PinsOf(motor'[m]) = <<0, 1>> /\ motor'[m].rotation = CCW)
            /\ motor'[m].duty = motor[m].duty
            /\ Bookkeeping(motor'[m]) = Bookkeeping(motor[m])

\* C13: rotate asserts the exclusive pattern of the direction and stores it,
\* without touching the duty.
C13_Rotate == [][C13_RotateStep]_vars

\* rotate(CCW) on a motor running at full duty
C13_Witness ==
    /\ last.op = "rotate" /\ last.m = "A" /\ last.arg = CCW
    /\ PinsOf(motor["A"]) = <<0, 1>> /\ motor["A"].rotation = CCW
    /\ motor["A"].duty = 1023

\* floor(speed * 1023 / 100 + 1/2)
HalfUp(speed) == (2 * 1023 * speed + 100) \div 200

\* C14 (state part): the duty run(speed) writes for a speed in 0..100 is the
\* round-half-up value of speed*1023/100; it lies in 0..1023 and is 0, 512 and
\* 1023 at the speeds 0, 50 and 100.
C14_MapValue ==
    \A m \in Motors :
        (last.op = "run" /\ last.m = m /\ last.arg \in MapSpeeds) =>
            /\ motor[m].duty = HalfUp(last.arg)
            /\ motor[m].duty \in 0..1023
            /\ last.arg = 0 => motor[m].duty = 0
            /\ last.arg = 50 => motor[m].duty = 512
            /\ last.arg = 100 => motor[m].duty = 1023

\* C14 (step part): of two runs, the one with the greater speed writes the
\* greater or equal duty.
C14_MapMonotone ==
    (last.op = "run" /\ last'.op = "run" /\ last.m = last'.m
        /\ last.arg <= last'.arg) =>
            motor[last.m].duty <= motor'[last.m].duty

\* C14: map(speed, 0, 100, 0, 1023) rounds speed*1023/100 half up.
C14_Map == []C14_MapValue /\ [][C14_MapMonotone]_vars

\* run(50): 511.5 rounds up to 512
C14_Witness ==
    last.op = "run" /\ last.arg = 50 /\ motor["A"].duty = 512

\* C15 (step): a call on one motor leaves every field of every other motor
\* unchanged, and so does the passing of time.
C15_OtherMotorStep ==
    \A m \in Motors :
        (last'.op = "none" \/ last'.m = m) =>
            \A x \in Motors \ {m} : motor'[x] = motor[x]

\* C15: the motors are independent of each other.
C15_Independent == [][C15_OtherMotorStep]_vars

\* brake() on motor B while motor A is in the middle of a runFor cycle at full
\* duty and B has finished a ramp
C15_Witness ==
    /\ last.op = "brake" /\ last.m = "B"
    /\ ~motor["A"].firstRun /\ motor["A"].duty = 1023 /\ cyc["A"].op = "runFor"
    /\ motor["B"].sp = 101 /\ Outputs(motor["B"]) = <<0, 0, 0>>

\* C16 (step): a runFor call with a negative speed that returns false leaves
\* the duty, both pins and the stored rotation as they were before the call.
C16_NegativeStep ==
    \A m \in Motors :
        (last'.op = "runFor" /\ last'.m = m /\ last'.arg < 0 /\ ~last'.ret) =>
            /\ Outputs(motor'[m]) = Outputs(motor[m])
            /\ motor'[m].rotation = motor[m].rotation

\* C16 (state part): the timing of a runFor cycle with a negative speed is that
\* of any runFor cycle: anchored at the counter value of its first call, it
\* returns true exactly when the counter read exceeds the anchor by more than
\* msToRun, and the call that returns true leaves the motor braked and armed.
C16_NegativeTiming ==
    \A m \in Motors :
        (Polling(m, "runFor") /\ last.arg < 0) =>
            /\ motor[m].msPrevious = cyc[m].t0
            /\ last.ret = (clock - cyc[m].t0 > cyc[m].b)
            /\ last.ret => (Braked(m) /\ motor[m].firstRun)
            /\ ~last.ret => ~motor[m].firstRun

\* C16: runFor with a negative speed never calls run and keeps its timing.
C16_RunForNegative == []C16_NegativeTiming /\ [][C16_NegativeStep]_vars

\* a later call of a runFor(-1, ...) cycle returns false with the motor still
\* running at full duty from an earlier run(100)
C16_Witness ==
    /\ Polling("A", "runFor") /\ last.arg = -1
    /\ ~last.first /\ ~last.ret
    /\ motor["A"].duty = 1023 /\ PinsOf(motor["A"]) = <<0, 1>>
    /\ motor["A"].rotation = CCW

\* C17: when an accelerate cycle with speedFrom # speedTo returns true, the
\* motor is driven at speedTo, i.e. the duty last written is that of speedTo.
C17_RampEndsAtTarget ==
    \A m \in Motors :
        (Polling(m, "accelerate") /\ cyc[m].a # cyc[m].b /\ last.ret) =>
            motor[m].duty = map(cyc[m].b, 0, 100, dutyMin, dutyMax)

\* C18 (step): a call of taskB leaves the phase where it is or moves it to the
\* next one in the order 0, 1, 2, 3, 0; it moves exactly when the operation of
\* the current phase returned true; leaving phase 2 brakes the motor and
\* reverses the rotation, and the rotation changes at no other time.
C18_PhaseStep ==
    last'.op = "taskB" =>
        /\ stateB' \in {stateB, (stateB + 1) % 4}
        /\ (stateB' # stateB) = last'.ret
        /\ (stateB = 2 /\ stateB' = 3) =>
              (Braked("B")' /\ motor'["B"].rotation = Flip(motor["B"].rotation))
        /\ (motor'["B"].rotation # motor["B"].rotation) =>
              (stateB = 2 /\ stateB' = 3)

\* C18 (state part): the operation polled is that of the phase, and it was
\* begun with the motor armed.
C18_PhaseOps ==
    cyc["B"].op # "none" =>
        /\ Continues("B", CallB(stateB).op, CallB(stateB).a,
                     CallB(stateB).b, CallB(stateB).c)
        /\ cyc["B"].armed0

\* C18 (liveness): each of the four phases is reached again and again.
C18_AllPhasesRecur == \A p \in 0..3 : []<>(stateB = p)

\* C18: taskB cycles through its four phases in order, forever.
C18_TaskB == [][C18_PhaseStep]_vars /\ []C18_PhaseOps /\ C18_AllPhasesRecur

\* C19 (state part): during the whole stop phase the motor is braked.
C19_StopBraked == stateA = 1 => Braked("A")

\* C19 (step): a call of taskA reverses the rotation exactly when it ends the
\* stop phase; a call that leaves the task in the run phase it was in asserts
\* the pin pattern of the stored rotation at the duty of speed 30.  The
\* rotation is thus the same through a run phase and the stop phase after it,
\* and the opposite in the next run phase, and the pattern with it.
C19_TaskStep ==
    last'.op = "taskA" =>
        /\ (motor'["A"].rotation # motor["A"].rotation)
              = (stateA = 1 /\ stateA' = 0)
        /\ motor'["A"].rotation \in
              {motor["A"].rotation, Flip(motor["A"].rotation)}
        /\ (stateA = 0 /\ stateA' = 0) =>
              /\ PinsOf(motor'["A"]) = Pattern(motor'["A"].rotation)
              /\ motor'["A"].duty = map(30, 0, 100, dutyMin, dutyMax)

\* C19 (liveness): the motor runs again and again and stops again and again.
C19_Alternates ==
    /\ []<>(stateA = 0 /\ ~Braked("A"))
    /\ []<>(stateA = 1)

\* C19: taskA alternates forever between running and a braked stop, reversing
\* once per cycle.
C19_TaskA == []C19_StopBraked /\ [][C19_TaskStep]_vars /\ C19_Alternates

\* C20 (step): run, rotate, reverseRotation and brake leave the armed flag,
\* the anchor, the ramp direction and the ramp speed as they were; so a timed
\* cycle in progress is still in progress, unarmed and with its old anchor,
\* after any of them.
C20_ImmediateStep ==
    \A m \in Motors :
        (last'.op \in {"run", "rotate", "reverseRotation", "brake"}
                /\ last'.m = m) =>
            /\ Bookkeeping(motor'[m]) = Bookkeeping(motor[m])
            /\ InFlight(m) => InFlight(m)'

\* C20: the immediate operations never touch the bookkeeping of the timed ones.
C20_BookkeepingKept == [][C20_ImmediateStep]_vars

\* brake() in the middle of an accelerate cycle: the motor is braked, still
\* unarmed, with the anchor and the ramp speed of the cycle
C20_Witness ==
    /\ last.op = "brake" /\ last.m = "A"
    /\ InFlight("A") /\ cyc["A"].op = "accelerate" /\ cyc["A"].armed0
    /\ Braked("A") /\ ~motor["A"].firstRun
    /\ motor["A"].msPrevious > 0 /\ motor["A"].sp = 100

====
